---- MODULE Spec2Model ----
(***************************************************************************)
(* Column layout of the Spoolman list pages (client/src/pages/vendors and  *)
(* client/src/pages/filaments, which share the code modelled here) and of  *)
(* the column editor dialog (components/columnEditor).                     *)
(*                                                                         *)
(* Page state: registry (allColumnsWithExtraFields), columnOrder,          *)
(* showColumns, columnWidths, editColumnsOpen, the document listeners of   *)
(* the resize drags.  Dialog state: order, visibleColumns, widths, the     *)
(* react-dnd drag item.  React runs a useEffect callback after the render  *)
(* that changed its dependencies has been committed; an effect that is     *)
(* scheduled and has not run yet is a flag of the state.                   *)
(***************************************************************************)
EXTENDS Integers, Sequences, FiniteSets, TLC

VARIABLES
  extraData,         \* extraFields.data: the custom field keys, or NoData
  columnOrder,       \* page: useState<string[]>
  showColumns,       \* page: useState<string[]>
  columnWidths,      \* page: useState<Record<string, number>>
  editColumnsOpen,   \* page: useState(false)
  order,             \* dialog: useState<string[]>([])
  visibleColumns,    \* dialog: useState<Set<string>>, in insertion order
  widths,            \* dialog: useState<Record<string, number>>({})
  dndItem,           \* react-dnd drag item {id, index}, or NoItem
  resizeDrags,       \* the (onMouseMove, onMouseUp) listener pairs on document
  pendingReconcile,  \* the page's reconciliation effect is scheduled
  pendingSync,       \* the dialog's open effect is scheduled
  steps,             \* number of events handled so far
  last,              \* the last event handled
  fnIn, fnOut, fnOp  \* a pure function applied on its own: arguments, results, name

vars == <<extraData, columnOrder, showColumns, columnWidths, editColumnsOpen,
          order, visibleColumns, widths, dndItem, resizeDrags,
          pendingReconcile, pendingSync, steps, last, fnIn, fnOut, fnOp>>

pageVars == <<extraData, columnOrder, showColumns, columnWidths, editColumnsOpen>>
dialogVars == <<order, visibleColumns, widths, dndItem>>
fnVars == <<fnIn, fnOut, fnOp>>

----------------------------------------------------------------------------
(* Bounds and program constants *)

MaxSteps == 5        \* events handled in one behaviour
MaxGrow == 1         \* pointer steps a column is widened beyond the lower limit
MaxDrags == 2        \* mouse downs on resize handles without a mouse up between
MaxLen == 3          \* longest array given to a function applied on its own
MinWidth == 60       \* Math.max(60, ...)

\* The static columns of the page (the first two of the vendor page's five).
allColumns == <<"id", "name">>
\* Keys of the custom fields the server may report.
ExtraKeys == {"a"}
\* Pointer positions (clientX) and measured header widths.
Xs == {0, 10}
HeaderWidths == {70}
\* The widest column a resize drag is taken to.
MaxWidth == MinWidth + 10 * MaxGrow
\* Widths typed into the dialog's InputNumber.
TypedWidths == {70}

Undefined == "undefined"
NoItem == [id |-> Undefined, index |-> -1]
NoSaved == <<"null">>
NoData == <<"undefined">>
NoHeader == 0 - 1          \* closest("th") found no header cell
Null == 0 - 1              \* the value of an emptied InputNumber
UndefinedWidth == 0 - 2    \* width?: number left undefined
NoNumber == 0 - 3          \* an event that carries no number

----------------------------------------------------------------------------
(* JavaScript helpers *)

Range(seq) == {seq[k] : k \in 1..Len(seq)}

NoDup(seq) == \A a, b \in 1..Len(seq) : seq[a] = seq[b] => a = b

Max(a, b) == IF a >= b THEN a ELSE b

Min(a, b) == IF a <= b THEN a ELSE b

\* Array.prototype.splice(start, deleteCount, ...items) on a copy, start >= 0.
Splice(arr, start, deleteCount, items) ==
  LET s == Min(start, Len(arr))
      d == Min(deleteCount, Len(arr) - s)
  IN SubSeq(arr, 1, s) \o items \o SubSeq(arr, s + d + 1, Len(arr))

\* arr[index], undefined past the end.
At(arr, index) == IF index < Len(arr) THEN arr[index + 1] ELSE Undefined

\* new Set(array): the distinct elements in order of first occurrence.
RECURSIVE SetFromArray(_)
SetFromArray(arr) ==
  IF arr = <<>> THEN <<>>
  ELSE LET init == SetFromArray(SubSeq(arr, 1, Len(arr) - 1))
           x == arr[Len(arr)]
       IN IF x \in Range(init) THEN init ELSE Append(init, x)

\* Array.from(set)
ArrayFromSet(set) == set

EmptyMap == [k \in {} |-> 0]

\* { ...prev, [id]: width }
MapSet(prev, id, width) ==
  [k \in DOMAIN prev \cup {id} |-> IF k = id THEN width ELSE prev[k]]

\* delete next[id]
MapDelete(prev, id) == [k \in DOMAIN prev \ {id} |-> prev[k]]

----------------------------------------------------------------------------
(* The column registry *)

\* "extra." + field.key
ExtraColumn(key) == IF key = "a" THEN "extra.a" ELSE "extra.b"

\* [...allColumns, ...(extraFields.data?.map((field) => "extra." + field.key) ?? [])]
allColumnsWithExtraFields(data) ==
  allColumns \o (IF data = NoData THEN <<>>
                 ELSE [k \in 1..Len(data) |-> ExtraColumn(data[k])])

registry == allColumnsWithExtraFields(extraData)

\* The dialog's columns prop: columnOptions, one {id, label} per registry entry.
columnOptions == registry

\* Every value extraFields.data can take: no data yet, or fields with distinct keys.
ExtraDatas ==
  {NoData} \cup {d \in UNION {[1..n -> ExtraKeys] : n \in 0..Cardinality(ExtraKeys)} : NoDup(d)}

AllIds == Range(allColumns) \cup {ExtraColumn(k) : k \in ExtraKeys}

----------------------------------------------------------------------------
(* Reconciliation *)

\* The initializer without the filter on the registry entries it appends.
columnOrderInitializer_AppendsAll(initialColumnOrder, all) ==
  LET savedOrder == IF initialColumnOrder = NoSaved THEN all ELSE initialColumnOrder
      filtered == SelectSeq(savedOrder, LAMBDA columnId : columnId \in Range(all))
  IN filtered \o all

\* useState initializer of columnOrder.
columnOrderInitializer(initialColumnOrder, all) ==
  LET savedOrder == IF initialColumnOrder = NoSaved THEN all ELSE initialColumnOrder
      known == Range(all)
      filtered == SelectSeq(savedOrder, LAMBDA columnId : columnId \in known)
      missing == SelectSeq(all, LAMBDA columnId : columnId \notin Range(filtered))
  IN filtered \o missing

\* The updater without the filter on the registry entries it appends.
reconcileColumnOrder_AppendsAll(prev, all) ==
  SelectSeq(prev, LAMBDA columnId : columnId \in Range(all)) \o all

\* The updater that appends the new IDs and keeps the removed ones.
reconcileColumnOrder_KeepsRemoved(prev, all) ==
  prev \o SelectSeq(all, LAMBDA columnId : columnId \notin Range(prev))

\* The updater the page's effect hands to setColumnOrder.
reconcileColumnOrder(prev, all) ==
  LET known == Range(all)
      filtered == SelectSeq(prev, LAMBDA columnId : columnId \in known)
      missing == SelectSeq(all, LAMBDA columnId : columnId \notin Range(filtered))
  IN filtered \o missing

\* resolvedOrder without the filter on the IDs the registry does not know.
ResolvedOrder_KeepsUnknown(ord, columns) ==
  ord \o SelectSeq(columns, LAMBDA id : id \notin Range(ord))

\* resolvedOrder with the missing columns in front.
ResolvedOrder_MissingFirst(ord, columns) ==
  LET known == SelectSeq(ord, LAMBDA id : id \in Range(columns))
  IN SelectSeq(columns, LAMBDA id : id \notin Range(known)) \o known

\* The dialog's resolvedOrder memo.
ResolvedOrder(ord, columns) ==
  LET columnsById == Range(columns)
      known == SelectSeq(ord, LAMBDA id : id \in columnsById)
      missing == SelectSeq(columns, LAMBDA id : id \notin Range(known))
  IN known \o missing

resolvedOrder == ResolvedOrder(order, columnOptions)

----------------------------------------------------------------------------
(* Dialog updaters *)

\* setOrder updater of moveColumn(dragIndex, hoverIndex)
moveColumn(prev, dragIndex, hoverIndex) ==
  LET dragged == At(prev, dragIndex)
      next == Splice(prev, dragIndex, 1, <<>>)
  IN Splice(next, hoverIndex, 0, <<dragged>>)

\* toggleColumn that adds and never deletes.
toggleColumn_AddOnly(prev, id) ==
  IF id \in Range(prev) THEN prev ELSE Append(prev, id)

\* setVisibleColumns updater of toggleColumn(id)
toggleColumn(prev, id) ==
  IF id \in Range(prev) THEN SelectSeq(prev, LAMBDA c : c # id)
  ELSE Append(prev, id)

\* updateWidth that assigns undefined instead of deleting the key.
updateWidth_KeepsKey(prev, id, width) == MapSet(prev, id, width)

\* setWidths updater of updateWidth(id, width)
updateWidth(prev, id, width) ==
  IF width = UndefinedWidth THEN MapDelete(prev, id) ELSE MapSet(prev, id, width)

\* onChange of the row's InputNumber: typeof value === "number" ? value : undefined
InputValue(value) == IF value # Null THEN value ELSE UndefinedWidth

\* The layout onOk hands to onApply.
AppliedState ==
  [columnOrder |-> resolvedOrder,
   showColumns |-> ArrayFromSet(visibleColumns),
   columnWidths |-> widths]

----------------------------------------------------------------------------
(* Resize *)

\* Math.round on the integer pixel values of the model.
MathRound(n) == n

\* columnWidths[columnId] ?? (headerCell ? Math.round(width) : 0)
StartWidth(columnId, header) ==
  IF columnId \in DOMAIN columnWidths THEN columnWidths[columnId]
  ELSE IF header # NoHeader THEN MathRound(header) ELSE 0

\* onMouseMove without the lower limit.
NextWidth_NoFloor(drag, clientX) == drag.startWidth + clientX - drag.startX

\* onMouseMove of one drag: Math.max(60, startWidth + moveEvent.clientX - startX)
NextWidth(drag, clientX) == Max(MinWidth, drag.startWidth + clientX - drag.startX)

\* Every mousemove listener on document, in the order they were added.
RECURSIVE ApplyMoves(_, _, _)
ApplyMoves(prev, drags, clientX) ==
  IF drags = <<>> THEN prev
  ELSE ApplyMoves(MapSet(prev, drags[1].columnId, MathRound(NextWidth(drags[1], clientX))),
                  Tail(drags), clientX)

----------------------------------------------------------------------------
(* Events *)

\* No effect is scheduled.  React runs the scheduled effects before it handles
\* a click, a key, a change or a mouse down; the native dragover and mousemove
\* events of a gesture in progress can arrive before them.
Settled == ~pendingReconcile /\ ~pendingSync

\* One more event is handled: its name, the column and the number it carries.
Event(op, id, n) ==
  /\ steps < MaxSteps
  /\ steps' = steps + 1
  /\ last' = [op |-> op, id |-> id, n |-> n]

\* extraFields.data at the first render: not fetched yet, or cached.
InitialDatas == {NoData, <<"a">>}

\* Saved layouts the page may find in local storage: written by an earlier
\* session, so each order lists the registry of that session once.
SavedOrders == {NoSaved, <<"name", "id">>, <<"extra.a", "id", "name">>}
SavedShow == {NoSaved}
SavedWidths == {EmptyMap, [c \in {"name"} |-> 70]}

PageInit ==
  /\ extraData \in InitialDatas
  /\ \E saved \in SavedOrders :
       columnOrder = columnOrderInitializer(saved, registry)
  /\ \E saved \in SavedShow :
       showColumns = IF saved = NoSaved THEN allColumns ELSE saved
  /\ columnWidths \in SavedWidths
  /\ editColumnsOpen = FALSE
  /\ resizeDrags = <<>>
  /\ pendingReconcile = FALSE   \* the effect of the first render has run

DialogInit ==
  /\ order = <<>>
  /\ visibleColumns = <<>>
  /\ widths = EmptyMap
  /\ dndItem = NoItem
  /\ pendingSync = FALSE

FnIdle ==
  /\ fnIn = <<>>
  /\ fnOut = <<>>
  /\ fnOp = "none"

Init ==
  /\ PageInit
  /\ DialogInit
  /\ FnIdle
  /\ steps = 0
  /\ last = [op |-> "init", id |-> Undefined, n |-> NoNumber]

\* extraFields.data changes: the page renders with the new registry and its
\* reconciliation effect is scheduled.
RegistryChange(data) ==
  /\ Settled
  /\ data # extraData /\ data # NoData
  /\ Event("registryChange", Undefined, NoNumber)
  /\ extraData' = data
  /\ pendingReconcile' = TRUE
  /\ UNCHANGED <<columnOrder, showColumns, columnWidths, editColumnsOpen,
                 dialogVars, resizeDrags, pendingSync, fnVars>>

\* The reconciliation effect that also shows the columns it appends.
ReconcileEffect_ShowsNew ==
  /\ pendingReconcile
  /\ columnOrder' = reconcileColumnOrder(columnOrder, registry)
  /\ showColumns' = showColumns \o SelectSeq(registry,
                       LAMBDA columnId : columnId \notin Range(columnOrder)
                                            /\ columnId \notin Range(showColumns))
  /\ pendingReconcile' = FALSE
  /\ pendingSync' = (pendingSync \/ editColumnsOpen)
  /\ UNCHANGED <<extraData, columnWidths, editColumnsOpen,
                 dialogVars, resizeDrags, steps, last, fnVars>>

\* useEffect(() => setColumnOrder((prev) => ...), [allColumnsWithExtraFields])
ReconcileEffect ==
  /\ pendingReconcile
  /\ columnOrder' = reconcileColumnOrder(columnOrder, registry)
  /\ pendingReconcile' = FALSE
  /\ pendingSync' = (pendingSync \/ editColumnsOpen)
  /\ UNCHANGED <<extraData, showColumns, columnWidths, editColumnsOpen,
                 dialogVars, resizeDrags, steps, last, fnVars>>

\* The dialog's effect without setWidths(columnWidths).
OpenEffect_KeepsWidths ==
  /\ pendingSync
  /\ pendingSync' = FALSE
  /\ IF ~editColumnsOpen
       THEN UNCHANGED <<order, visibleColumns>>
       ELSE /\ order' = columnOrder
            /\ visibleColumns' = SetFromArray(showColumns)
  /\ UNCHANGED <<pageVars, widths, dndItem, resizeDrags, pendingReconcile, steps,
                 last, fnVars>>

\* The dialog's useEffect on [open, columnOrder, showColumns, columnWidths].
OpenEffect ==
  /\ pendingSync
  /\ pendingSync' = FALSE
  /\ IF ~editColumnsOpen
       THEN UNCHANGED <<order, visibleColumns, widths>>
       ELSE /\ order' = columnOrder
            /\ visibleColumns' = SetFromArray(showColumns)
            /\ widths' = columnWidths
  /\ UNCHANGED <<pageVars, dndItem, resizeDrags, pendingReconcile, steps, last, fnVars>>

\* The edit button without the dialog's effect: the local state stays as it was.
OpenDialog_KeepsLocalState ==
  /\ Settled
  /\ ~editColumnsOpen
  /\ dndItem = NoItem
  /\ resizeDrags = <<>>
  /\ Event("open", Undefined, NoNumber)
  /\ editColumnsOpen' = TRUE
  /\ pendingSync' = FALSE
  /\ UNCHANGED <<extraData, columnOrder, showColumns, columnWidths, dialogVars,
                 resizeDrags, pendingReconcile, fnVars>>

\* onClick of the edit button: setEditColumnsOpen(true); the dialog's effect
\* runs in the same commit (a click is a discrete event).
OpenDialog ==
  /\ Settled
  /\ ~editColumnsOpen
  /\ dndItem = NoItem
  /\ resizeDrags = <<>>
  /\ Event("open", Undefined, NoNumber)
  /\ editColumnsOpen' = TRUE
  /\ order' = columnOrder
  /\ visibleColumns' = SetFromArray(showColumns)
  /\ widths' = columnWidths
  /\ pendingSync' = FALSE
  /\ UNCHANGED <<extraData, columnOrder, showColumns, columnWidths, dndItem,
                 resizeDrags, pendingReconcile, fnVars>>

\* A cancel that hands the dialog's state to the page as a confirm does.
Cancel_AppliesEdits ==
  /\ Settled
  /\ editColumnsOpen
  /\ dndItem = NoItem
  /\ Event("cancel", Undefined, NoNumber)
  /\ columnOrder' = AppliedState.columnOrder
  /\ showColumns' = AppliedState.showColumns
  /\ columnWidths' = AppliedState.columnWidths
  /\ editColumnsOpen' = FALSE
  /\ UNCHANGED <<extraData, dialogVars, resizeDrags, pendingReconcile,
                 pendingSync, fnVars>>

\* onCancel={onClose}: setEditColumnsOpen(false)
Cancel ==
  /\ Settled
  /\ editColumnsOpen
  /\ dndItem = NoItem
  /\ Event("cancel", Undefined, NoNumber)
  /\ editColumnsOpen' = FALSE
  /\ UNCHANGED <<extraData, columnOrder, showColumns, columnWidths, dialogVars,
                 resizeDrags, pendingReconcile, pendingSync, fnVars>>

\* onApply without setColumnWidths.
Confirm_DropsWidths ==
  /\ Settled
  /\ editColumnsOpen
  /\ dndItem = NoItem
  /\ Event("apply", Undefined, NoNumber)
  /\ columnOrder' = AppliedState.columnOrder
  /\ showColumns' = AppliedState.showColumns
  /\ editColumnsOpen' = FALSE
  /\ UNCHANGED <<extraData, columnWidths, dialogVars, resizeDrags, pendingReconcile,
                 pendingSync, fnVars>>

\* onOk: onApply({columnOrder: resolvedOrder, showColumns, columnWidths}), and
\* the page's onApply: the three setters and setEditColumnsOpen(false).
Confirm ==
  /\ Settled
  /\ editColumnsOpen
  /\ dndItem = NoItem
  /\ Event("apply", Undefined, NoNumber)
  /\ columnOrder' = AppliedState.columnOrder
  /\ showColumns' = AppliedState.showColumns
  /\ columnWidths' = AppliedState.columnWidths
  /\ editColumnsOpen' = FALSE
  /\ UNCHANGED <<extraData, dialogVars, resizeDrags, pendingReconcile,
                 pendingSync, fnVars>>

\* Checkbox onChange of a displayed row: onToggle(id)
Toggle(id) ==
  /\ Settled
  /\ editColumnsOpen
  /\ dndItem = NoItem
  /\ id \in Range(resolvedOrder)
  /\ Event("toggle", id, NoNumber)
  /\ visibleColumns' = toggleColumn(visibleColumns, id)
  /\ UNCHANGED <<pageVars, order, widths, dndItem, resizeDrags,
                 pendingReconcile, pendingSync, fnVars>>

\* InputNumber onChange of a displayed row: onWidthChange(id, value or undefined)
WidthChange(id, value) ==
  /\ Settled
  /\ editColumnsOpen
  /\ dndItem = NoItem
  /\ id \in Range(resolvedOrder)
  /\ Event("width", id, InputValue(value))
  /\ widths' = updateWidth(widths, id, InputValue(value))
  /\ UNCHANGED <<pageVars, order, visibleColumns, dndItem, resizeDrags,
                 pendingReconcile, pendingSync, fnVars>>

\* useDrag of the row displayed at index: item {id, index}
BeginDrag(index) ==
  /\ Settled
  /\ editColumnsOpen
  /\ dndItem = NoItem
  /\ resizeDrags = <<>>
  /\ index \in 0..(Len(resolvedOrder) - 1)
  /\ Event("beginDrag", resolvedOrder[index + 1], index)
  /\ dndItem' = [id |-> resolvedOrder[index + 1], index |-> index]
  /\ UNCHANGED <<pageVars, order, visibleColumns, widths, resizeDrags,
                 pendingReconcile, pendingSync, fnVars>>

\* useDrop hover of the row displayed at index
Hover(index) ==
  /\ editColumnsOpen
  /\ dndItem # NoItem
  /\ index \in 0..(Len(resolvedOrder) - 1)
  /\ Event("hover", dndItem.id, index)
  /\ IF dndItem.index = index
       THEN UNCHANGED <<order, dndItem>>
       ELSE /\ order' = moveColumn(order, dndItem.index, index)
            /\ dndItem' = [dndItem EXCEPT !.index = index]
  /\ UNCHANGED <<pageVars, visibleColumns, widths, resizeDrags,
                 pendingReconcile, pendingSync, fnVars>>

\* The drag ends (drop or abort); react-dnd discards the item.
EndDrag ==
  /\ dndItem # NoItem
  /\ Event("endDrag", dndItem.id, NoNumber)
  /\ dndItem' = NoItem
  /\ UNCHANGED <<pageVars, order, visibleColumns, widths, resizeDrags,
                 pendingReconcile, pendingSync, fnVars>>

\* onMouseDown of a header's resize handle: handleResizeStart(columnId)(event)
ResizeStart(columnId, clientX, header) ==
  /\ Settled
  /\ ~editColumnsOpen
  /\ dndItem = NoItem
  /\ Len(resizeDrags) < MaxDrags
  /\ columnId \in Range(registry)
  /\ Event("resizeStart", columnId, clientX)
  /\ resizeDrags' = Append(resizeDrags,
       [columnId |-> columnId, startX |-> clientX,
        startWidth |-> StartWidth(columnId, header)])
  /\ UNCHANGED <<pageVars, dialogVars, pendingReconcile, pendingSync, fnVars>>

\* A mousemove event on document: every registered onMouseMove runs.
MouseMove(clientX) ==
  /\ \A k \in 1..Len(resizeDrags) : NextWidth(resizeDrags[k], clientX) <= MaxWidth
  /\ Event("mouseMove", Undefined, clientX)
  /\ columnWidths' = ApplyMoves(columnWidths, resizeDrags, clientX)
  /\ pendingSync' = (pendingSync \/ (editColumnsOpen /\ resizeDrags # <<>>))
  /\ UNCHANGED <<extraData, columnOrder, showColumns, editColumnsOpen, dialogVars,
                 resizeDrags, pendingReconcile, fnVars>>

\* onMouseUp without the two removeEventListener calls.
MouseUp_KeepsListeners ==
  /\ resizeDrags # <<>>
  /\ Event("mouseUp", Undefined, NoNumber)
  /\ UNCHANGED <<pageVars, dialogVars, resizeDrags, pendingReconcile, pendingSync, fnVars>>

\* A mouseup event on document: every registered onMouseUp removes its pair.
MouseUp ==
  /\ resizeDrags # <<>>
  /\ Event("mouseUp", Undefined, NoNumber)
  /\ resizeDrags' = <<>>
  /\ UNCHANGED <<pageVars, dialogVars, pendingReconcile, pendingSync, fnVars>>

Next ==
  \/ \E data \in ExtraDatas : RegistryChange(data)
  \/ ReconcileEffect
  \/ OpenEffect
  \/ OpenDialog
  \/ Cancel
  \/ Confirm
  \/ \E id \in AllIds : Toggle(id)
  \/ \E id \in AllIds, value \in TypedWidths \cup {Null} : WidthChange(id, value)
  \/ \E index \in 0..(Cardinality(AllIds) - 1) : BeginDrag(index)
  \/ \E index \in 0..(Cardinality(AllIds) - 1) : Hover(index)
  \/ EndDrag
  \/ \E columnId \in AllIds, clientX \in Xs, header \in HeaderWidths \cup {NoHeader} :
       ResizeStart(columnId, clientX, header)
  \/ \E clientX \in Xs : MouseMove(clientX)
  \/ MouseUp

Spec == Init /\ [][Next]_vars

----------------------------------------------------------------------------
(* The functions of the layout applied on their own, to every argument up *)
(* to MaxLen: the two reconciliations of the page, the dialog's           *)
(* resolvedOrder, toggleColumn and updateWidth.                           *)

FnIds == {"id", "name", "extra.a", "extra.b"}
FnKeys == {"a", "b"}

SeqsUpTo(S, n) == UNION {[1..m -> S] : m \in 0..n}

\* Registries: the static columns, then custom fields with distinct keys.
FnRegistries ==
  {allColumnsWithExtraFields(d) :
     d \in {e \in SeqsUpTo(FnKeys, Cardinality(FnKeys)) : NoDup(e)}}

ReconcileInputs ==
  {<<s, r>> : s \in SeqsUpTo(FnIds, MaxLen) \cup FnRegistries \cup {NoSaved},
              r \in FnRegistries}

ToggleInputs ==
  {<<v, c>> : v \in {s \in SeqsUpTo(AllIds, MaxLen) : NoDup(s)}, c \in AllIds}

FnInit ==
  /\ extraData = NoData
  /\ columnOrder = allColumns
  /\ showColumns = allColumns
  /\ columnWidths = EmptyMap
  /\ editColumnsOpen = FALSE
  /\ resizeDrags = <<>>
  /\ pendingReconcile = FALSE
  /\ DialogInit
  /\ steps = 0
  /\ last = [op |-> "init", id |-> Undefined, n |-> NoNumber]
  /\ \/ fnOp = "reconcile" /\ fnIn \in ReconcileInputs
     \/ fnOp = "toggle" /\ fnIn \in ToggleInputs
  /\ fnOut = <<>>

FnHold == UNCHANGED <<pageVars, dialogVars, resizeDrags, pendingReconcile,
                      pendingSync, steps, last, fnIn>>

\* The page's useState initializer on (initialState.columnOrder, registry).
FnInitializer ==
  /\ fnOp = "reconcile"
  /\ fnOp' = "initializer"
  /\ fnOut' = <<columnOrderInitializer(fnIn[1], fnIn[2])>>
  /\ FnHold

\* The page's effect on (prev, registry), and once more on its own result.
FnEffect ==
  /\ fnOp = "reconcile" /\ fnIn[1] # NoSaved
  /\ fnOp' = "effect"
  /\ fnOut' = <<reconcileColumnOrder(fnIn[1], fnIn[2])>>
  /\ FnHold

FnEffectAgain ==
  /\ fnOp \in {"initializer", "effect"} /\ Len(fnOut) = 1
  /\ fnOp' = "effect"
  /\ fnOut' = Append(fnOut, reconcileColumnOrder(fnOut[1], fnIn[2]))
  /\ FnHold

\* The dialog's resolvedOrder on (order, columns), and once more on its own result.
FnResolved ==
  /\ fnOp = "reconcile" /\ fnIn[1] # NoSaved
  /\ fnOp' = "resolved"
  /\ fnOut' = <<ResolvedOrder(fnIn[1], fnIn[2])>>
  /\ FnHold

FnResolvedAgain ==
  /\ fnOp = "resolved" /\ Len(fnOut) = 1
  /\ fnOp' = "resolved"
  /\ fnOut' = Append(fnOut, ResolvedOrder(fnOut[1], fnIn[2]))
  /\ FnHold

\* toggleColumn(id) on a visibility set, once and twice.
FnToggle ==
  /\ fnOp = "toggle" /\ Len(fnOut) < 2
  /\ fnOp' = "toggle"
  /\ fnOut' = Append(fnOut, toggleColumn(IF fnOut = <<>> THEN fnIn[1] ELSE fnOut[1],
                                         fnIn[2]))
  /\ FnHold

FnNext ==
  \/ FnInitializer
  \/ FnEffect
  \/ FnEffectAgain
  \/ FnResolved
  \/ FnResolvedAgain
  \/ FnToggle

SpecFn == FnInit /\ [][FnNext]_vars

----------------------------------------------------------------------------
(* Properties *)

Count(seq, x) == Cardinality({k \in 1..Len(seq) : seq[k] = x})

\* a and b hold the same elements, each as often.
SameElements(a, b) ==
  /\ Len(a) = Len(b)
  /\ \A x \in Range(a) \cup Range(b) : Count(a, x) = Count(b, x)

\* seq lists exactly the IDs of all, each once.
ListsEachOnce(seq, all) == NoDup(seq) /\ Range(seq) = Range(all)

\* out is: the entries of s that are in r, as they follow each other in s,
\* then the entries of r that are not in s, as they follow each other in r.
IsMerge(out, s, r) ==
  LET keptAt == {a \in 1..Len(s) : s[a] \in Range(r)}
      newAt == {b \in 1..Len(r) : r[b] \notin Range(s)}
      nKept == Cardinality(keptAt)
  IN /\ Len(out) = nKept + Cardinality(newAt)
     /\ \A a \in keptAt : out[Cardinality({a2 \in keptAt : a2 <= a})] = s[a]
     /\ \A b \in newAt : out[nKept + Cardinality({b2 \in newAt : b2 <= b})] = r[b]

FnSaved == IF fnIn[1] = NoSaved THEN fnIn[2] ELSE fnIn[1]

\* C1: every reconciliation (the page's initializer, the page's effect, the
\* dialog's resolvedOrder) of a saved order s against a registry r returns the
\* elements of s that are in r, in their order in s, followed by the elements
\* of r that are not in s, in registry order.
C1_ReconcileIsMerge ==
  fnOp \in {"initializer", "effect", "resolved"} =>
    /\ IsMerge(fnOut[1], FnSaved, fnIn[2])
    /\ Len(fnOut) = 2 => IsMerge(fnOut[2], fnOut[1], fnIn[2])

C1_Witness ==
  /\ fnOp = "effect"
  /\ fnIn = << <<"extra.a", "name">>, <<"id", "name", "extra.b">> >>
  /\ fnOut = << <<"name", "id", "extra.b">> >>

\* C2: reconciling the result of a reconciliation again, against the same
\* registry, returns it unchanged.
C2_ReconcileIdempotent ==
  (fnOp \in {"effect", "resolved"} /\ Len(fnOut) = 2) => fnOut[2] = fnOut[1]

C2_Witness ==
  /\ fnOp = "effect"
  /\ Len(fnOut) = 2
  /\ fnIn[1] # NoSaved
  /\ fnOut[1] # fnIn[1]
  /\ \E x \in Range(fnIn[1]) : x \notin Range(fnIn[2])
  /\ \E x \in Range(fnIn[2]) : x \notin Range(fnIn[1])

\* C3: reconciling a registry against itself returns it, same elements at the
\* same positions; with no saved order the initial column order is the registry.
C3_ReconcileNoOp ==
  (fnOp \in {"initializer", "effect", "resolved"}
     /\ (fnIn[1] = fnIn[2] \/ fnIn[1] = NoSaved)) => fnOut[1] = fnIn[2]

C3_Witness ==
  /\ fnOp = "initializer"
  /\ fnIn[1] = NoSaved
  /\ fnIn[2] = <<"id", "name", "extra.b", "extra.a">>
  /\ fnOut = <<fnIn[2]>>

\* C5: one toggleColumn(c) changes the membership of c and of no other ID, and
\* a second one in succession gives back a set equal to the first.
C5_ToggleTwiceIsIdentity ==
  fnOp = "toggle" =>
    /\ Len(fnOut) >= 1 =>
         /\ NoDup(fnOut[1])
         /\ (fnIn[2] \in Range(fnOut[1])) <=> (fnIn[2] \notin Range(fnIn[1]))
         /\ Range(fnOut[1]) \ {fnIn[2]} = Range(fnIn[1]) \ {fnIn[2]}
    /\ Len(fnOut) = 2 => (NoDup(fnOut[2]) /\ Range(fnOut[2]) = Range(fnIn[1]))

C5_Witness ==
  /\ fnOp = "toggle"
  /\ Len(fnOut) = 2
  /\ fnIn[2] \in Range(fnIn[1])
  /\ fnOut[2] # fnIn[1]

\* The step handles the named event.
EventStep(op) == steps' = steps + 1 /\ last'.op = op

\* The rows the dialog displays are numbered 0 .. DisplayedRows - 1.
DisplayedRows == Len(resolvedOrder)

\* C4: moveColumn(i, j) on the indices of two displayed rows gives a
\* permutation of the dialog's order list in which the element displayed at
\* index i is at index j and all other elements keep their relative order.
C4_MoveColumnMovesOneElement ==
  [][\A i, j \in 0..(Cardinality(AllIds) - 1) :
       (/\ EventStep("hover")
        /\ dndItem.index = i /\ last'.n = j /\ i # j
        /\ i < DisplayedRows /\ j < DisplayedRows)
       => LET moved == resolvedOrder[i + 1]
          IN /\ SameElements(order', order)
             /\ At(order', j) = moved
             /\ SelectSeq(order', LAMBDA c : c # moved)
                  = SelectSeq(order, LAMBDA c : c # moved)]_vars

C7_ApplyIsAtomic ==
  [][/\ EventStep("apply")
          => /\ columnOrder' = resolvedOrder
             /\ showColumns' = ArrayFromSet(visibleColumns)
             /\ columnWidths' = widths
             /\ ~editColumnsOpen'
     /\ showColumns' # showColumns => EventStep("apply")
     /\ columnOrder' # columnOrder
          => (EventStep("apply") \/ (pendingReconcile /\ ~pendingReconcile'))
     /\ columnWidths' # columnWidths
          => (EventStep("apply") \/ EventStep("mouseMove"))]_vars

C7_Witness ==
  /\ last.op = "apply"
  /\ ~editColumnsOpen
  /\ showColumns = <<"name">>
  /\ "id" \in DOMAIN columnWidths
  /\ columnWidths = widths

C9_OrderFollowsRegistry ==
  /\ [](~pendingReconcile => ListsEachOnce(columnOrder, registry))
  /\ [][(pendingReconcile /\ ~pendingReconcile')
          => IsMerge(columnOrder', columnOrder, registry)]_vars

C9_Witness ==
  /\ last.op = "registryChange"
  /\ ~pendingReconcile
  /\ extraData = <<"a">>
  /\ columnOrder = <<"name", "id", "extra.a">>

\* The entries of ord that the registry knows, in their order.
KnownOf(ord) == SelectSeq(ord, LAMBDA id : id \in Range(registry))

StartsWith(seq, prefix) ==
  Len(prefix) <= Len(seq) /\ SubSeq(seq, 1, Len(prefix)) = prefix

\* C10 as claimed: while the dialog is open the rows list every column of the
\* registry once and nothing else, the columns of the page's current order
\* first, in that order.
C10_RowsInPageOrder ==
  (editColumnsOpen /\ ~pendingReconcile /\ ~pendingSync) =>
    /\ ListsEachOnce(resolvedOrder, columnOptions)
    /\ StartsWith(resolvedOrder, KnownOf(columnOrder))

\* C10 amended: while the dialog is open the rows, and the columnOrder a
\* confirm emits, list every column of the registry once and nothing else,
\* the columns of the dialog's own order list first, in that order: the page's
\* order as it was when the dialog's effect last ran, rearranged by the drags
\* since.
C10_RowsInDialogOrder ==
  /\ editColumnsOpen =>
       /\ ListsEachOnce(resolvedOrder, columnOptions)
       /\ StartsWith(resolvedOrder, KnownOf(order))
  /\ (last.op = "open" /\ ~pendingSync) => order = columnOrder
  /\ last.op = "apply" => ListsEachOnce(columnOrder, registry)

C10_Witness ==
  /\ editColumnsOpen
  /\ last.op = "hover"
  /\ ~pendingReconcile /\ ~pendingSync
  /\ resolvedOrder # columnOrder
  /\ resolvedOrder = order

\* C11: opening the dialog sets its order, visibility set and width map to the
\* page's column order, visible columns and column widths; a confirm that
\* directly follows the opening, on a page whose order lists the registry,
\* leaves the page's order, visible columns and widths as they were.
C11_OpenThenApplyKeepsLayout ==
  [][/\ EventStep("open")
          => /\ order' = columnOrder
             /\ visibleColumns' = SetFromArray(showColumns)
             /\ widths' = columnWidths
     /\ (last.op = "open" /\ EventStep("apply") /\ ListsEachOnce(columnOrder, registry))
          => /\ columnOrder' = columnOrder
             /\ showColumns' = showColumns
             /\ columnWidths' = columnWidths]_vars

C11_Witness ==
  /\ steps = 2
  /\ last.op = "apply"
  /\ extraData = <<"a">>
  /\ columnOrder = <<"name", "id", "extra.a">>
  /\ showColumns = allColumns
  /\ columnWidths = [c \in {"name"} |-> 70]

\* The events of the dialog that edit its local state.
DialogEdits == {"beginDrag", "hover", "endDrag", "toggle", "width"}

\* C12: a drag, a toggle or a width edit in the dialog, and a cancel, leave
\* the page's column order, visible columns and column widths as they are; a
\* cancel closes the dialog; and the next opening sets the dialog's order,
\* visibility set and widths to the page's, so that its rows are the page's
\* column order whatever edits were abandoned.
C12_CancelDiscardsEdits ==
  [][/\ (\E op \in DialogEdits \cup {"cancel"} : EventStep(op))
          => UNCHANGED <<columnOrder, showColumns, columnWidths>>
     /\ EventStep("cancel") => ~editColumnsOpen'
     /\ EventStep("open")
          => /\ order' = columnOrder'
             /\ resolvedOrder' = columnOrder'
             /\ Range(visibleColumns') = Range(showColumns')
             /\ widths' = columnWidths']_vars

C12_Witness ==
  /\ last.op = "cancel"
  /\ ~editColumnsOpen
  /\ Range(visibleColumns) # Range(showColumns)
  /\ widths # columnWidths
  /\ showColumns = allColumns
  /\ columnWidths = EmptyMap

\* C13: within a drag every hover leaves the dragged column at the index of
\* the hovered row in the dialog's order, with the item's index updated to it
\* and the order a permutation of the order before the hover (hence of the
\* order at drag start); a hover over the item's own index changes nothing.
C13_DragFollowsHover ==
  [][EventStep("hover")
       => /\ At(order', last'.n) = dndItem.id
          /\ dndItem'.id = dndItem.id
          /\ dndItem'.index = last'.n
          /\ SameElements(order', order)
          /\ last'.n = dndItem.index => (order' = order /\ dndItem' = dndItem)]_vars

\* The columns whose resize drag has its listeners on document.
DraggedColumns == {resizeDrags[k].columnId : k \in 1..Len(resizeDrags)}

\* C14: a mouse up removes the listeners of the drag, and listeners are added
\* by a mouse down on a resize handle only; a mouse move without listeners
\* changes no width; a mouse move during a drag changes the entry of no
\* column but the dragged one; mouse down, mouse move and mouse up leave the
\* column order and the visible columns unchanged.
C14_ResizeEndsAtMouseUp ==
  [][/\ EventStep("mouseUp") => resizeDrags' = <<>>
     /\ resizeDrags' # resizeDrags
          => (EventStep("mouseUp") \/ EventStep("resizeStart"))
     /\ (EventStep("mouseMove") /\ resizeDrags = <<>>) => columnWidths' = columnWidths
     /\ EventStep("mouseMove")
          => /\ DOMAIN columnWidths' = DOMAIN columnWidths \cup DraggedColumns
             /\ \A c \in DOMAIN columnWidths \ DraggedColumns :
                  columnWidths'[c] = columnWidths[c]
     /\ (EventStep("resizeStart") \/ EventStep("mouseUp"))
          => columnWidths' = columnWidths
     /\ (\E op \in {"resizeStart", "mouseMove", "mouseUp"} : EventStep(op))
          => UNCHANGED <<columnOrder, showColumns>>]_vars

C14_Witness ==
  /\ steps = 4
  /\ last = [op |-> "mouseMove", id |-> Undefined, n |-> 10]
  /\ resizeDrags = <<>>
  /\ columnWidths = [c \in {"id", "name"} |-> IF c = "id" THEN 60 ELSE 70]

\* The step runs the page's reconciliation effect.
ReconcileStep == pendingReconcile /\ ~pendingReconcile'

\* C15: a registry change and the reconciliation effect that follows it leave
\* the page's visible columns and column widths unchanged: a column the
\* effect appends to the order is not made visible by it, and a column it
\* drops from the order stays in the visible columns and in the width map if
\* it was there.
C15_ReconcileChangesOrderOnly ==
  [][/\ (EventStep("registryChange") \/ ReconcileStep)
          => UNCHANGED <<showColumns, columnWidths>>
     /\ EventStep("registryChange") => UNCHANGED columnOrder
     /\ ReconcileStep
          => \A c \in AllIds :
               /\ (c \in Range(columnOrder') /\ c \notin Range(columnOrder))
                    => (c \in Range(showColumns') <=> c \in Range(showColumns))
               /\ (c \in Range(columnOrder) /\ c \notin Range(columnOrder'))
                    => /\ c \in Range(showColumns) => c \in Range(showColumns')
                       /\ c \in DOMAIN columnWidths => c \in DOMAIN columnWidths']_vars

C15_Witness ==
  /\ last.op = "registryChange"
  /\ ~pendingReconcile
  /\ columnOrder = <<"name", "id">>
  /\ "extra.a" \in Range(showColumns)
  /\ "extra.a" \in DOMAIN columnWidths

\* The step runs the dialog's effect after a change of its dependencies.
SyncStep == pendingSync /\ ~pendingSync'

\* C16: a step that sets the page's column order, visible columns or column
\* widths while the dialog is and stays open schedules the dialog's effect,
\* which is scheduled for an open dialog only; the effect sets the dialog's
\* order, visibility set and widths to the page's current values whatever
\* they held; no click, change or mouse down is handled before it has run;
\* and while the dialog is closed no step changes its local state.
C16_PageChangeResetsOpenDialog ==
  /\ [](pendingSync => editColumnsOpen)
  /\ [][/\ (editColumnsOpen /\ editColumnsOpen'
            /\ (ReconcileStep \/ showColumns' # showColumns
                   \/ columnWidths' # columnWidths))
             => pendingSync'
        /\ SyncStep
             => /\ order' = columnOrder
                /\ visibleColumns' = SetFromArray(showColumns)
                /\ widths' = columnWidths
                /\ UNCHANGED <<columnOrder, showColumns, columnWidths, dndItem>>
        /\ (pendingSync /\ steps' # steps)
             => last'.op \in {"hover", "endDrag", "mouseMove", "mouseUp"}
        /\ (~editColumnsOpen /\ ~editColumnsOpen')
             => UNCHANGED <<order, visibleColumns, widths>>]_vars

C16_Witness ==
  /\ editColumnsOpen
  /\ ~pendingReconcile /\ ~pendingSync
  /\ last.op = "registryChange"
  /\ dndItem = [id |-> "name", index |-> 1]
  /\ columnOrder = <<"name", "id", "extra.a">>
  /\ order = columnOrder

====
